---- MODULE Spec2Model ----
(***************************************************************************)
(* Model of the fan-out / arbitration engine of parallel_llm               *)
(* (src/parallel_llm/core.py): one call of ParallelLLM._parse_internal,    *)
(* its N concurrent _make_single_request worker tasks, the asyncio.gather  *)
(* join, _make_decision with its arbitration call and fallback, and the    *)
(* final validation of the response.                                       *)
(*                                                                         *)
(* A step of the model is the code an asyncio coroutine runs between two   *)
(* suspension points (the awaited remote call, the awaited sleep, the      *)
(* awaited gather).                                                        *)
(***************************************************************************)
EXTENDS Integers, Sequences, FiniteSets, TLC

\* ------------------------------------------------------------------ bounds
MaxProcessors == 3      \* largest config.num_processors explored
MaxRetries == 2         \* largest config.max_retries explored
MaxLiveProcessors == 2  \* largest num_processors explored under fairness
MaxEnvelopeProcessors == 2 \* largest num_processors explored through the envelope
MaxWorkerAttempts == 6  \* largest num_processors * (max_retries + 1) explored

\* ------------------------------------------------------- tasks of a request
DM == 0                                   \* the arbitration (decision maker) call
Workers(cfg) == 1 .. cfg.num_processors   \* tasks "processor_0" .. "processor_{N-1}"
TaskIds == 0 .. MaxProcessors

\* ------------------------------------------------- values the remote returns
\* completion.choices[0].message.parsed: an instance of response_format
\* ("A", "B"), an object of another model class carrying model_dump
\* ("OtherA"), or None (a refusal: "NoneV").
Instances == {"A", "B"}
Values == Instances \cup {"OtherA", "NoneV"}
NoValue == "-"

isinstance_response_format(v) == v \in Instances
hasattr_model_dump(v) == v \in Instances \cup {"OtherA"}

\* final_response.model_dump(): the mapping of the object's fields
model_dump(v) ==
    CASE v = "A"      -> "dict_A"
      [] v = "B"      -> "dict_B"
      [] v = "OtherA" -> "dict_A"
      [] OTHER        -> "raise"

\* response_format.model_validate(x): the instance built from x, or "raise"
model_validate(x) ==
    CASE x \in {"A", "dict_A"} -> "A"
      [] x \in {"B", "dict_B"} -> "B"
      [] OTHER                 -> "raise"

\* ------------------------------------------- failures of one remote attempt
\* what the awaited call raises inside _make_single_request
AttemptErrors == {"asyncio.TimeoutError", "openai.RateLimitError",
                  "openai.AuthenticationError", "openai.APITimeoutError",
                  "openai.APIError", "Exception"}

\* the except clause of _make_single_request that catches the error
except_clause(e) ==
    CASE e = "asyncio.TimeoutError"  -> "timeout"
      [] e = "openai.RateLimitError" -> "ratelimit"
      [] e \in {"openai.AuthenticationError", "openai.APITimeoutError",
                "openai.APIError"}   -> "apierror"
      [] OTHER                       -> "exception"

\* the exception classes handle_openai_error may be handed: those of an
\* attempt, and three more of the openai package
OpenAIErrors == AttemptErrors \cup {"openai.APIConnectionError",
                                    "openai.BadRequestError", "openai.OpenAIError"}

\* the direct base class of an exception class (openai._exceptions, asyncio)
base_class(c) ==
    CASE c \in {"openai.AuthenticationError", "openai.RateLimitError",
                "openai.BadRequestError"} -> "openai.APIStatusError"
      [] c = "openai.APITimeoutError"     -> "openai.APIConnectionError"
      [] c \in {"openai.APIStatusError", "openai.APIConnectionError"}
                                          -> "openai.APIError"
      [] c = "openai.APIError"            -> "openai.OpenAIError"
      [] OTHER                            -> "Exception"

\* isinstance(error, cls) for an error of class c
RECURSIVE isinstance(_, _)
isinstance(c, cls) ==
    IF c = cls THEN TRUE
    ELSE IF c = "Exception" THEN FALSE
    ELSE isinstance(base_class(c), cls)

\* variant: the generic openai.APIError test comes first
handle_openai_error_generic_first(e) ==
    IF isinstance(e, "openai.APIError") THEN "APIError"
    ELSE IF isinstance(e, "openai.AuthenticationError") THEN "AuthenticationError"
    ELSE IF isinstance(e, "openai.RateLimitError") THEN "RateLimitError"
    ELSE IF isinstance(e, "openai.APITimeoutError") THEN "TimeoutError"
    ELSE "ProcessingError"

\* errors.handle_openai_error: the framework error built from an openai error
handle_openai_error(e) ==
    IF isinstance(e, "openai.AuthenticationError") THEN "AuthenticationError"
    ELSE IF isinstance(e, "openai.RateLimitError") THEN "RateLimitError"
    ELSE IF isinstance(e, "openai.APITimeoutError") THEN "TimeoutError"
    ELSE IF isinstance(e, "openai.APIError") THEN "APIError"
    ELSE "ProcessingError"

\* what _make_single_request raises when the last attempt fails with e
terminal_error(e) ==
    CASE except_clause(e) = "timeout"   -> "ProcessingError"
      [] except_clause(e) = "ratelimit" -> handle_openai_error(e)
      [] except_clause(e) = "apierror"  -> handle_openai_error(e)
      [] OTHER                          -> "ProcessingError"

\* errors.is_retryable_error, on the framework error
is_retryable_error(err) ==
    IF err \in {"AuthenticationError", "ValidationError",
                "ConfigurationError", "ModelError"}
    THEN FALSE
    ELSE TRUE

\* variant: 2 * attempt instead of 2 ** attempt
Pow2_product(n) == 2 * n

\* 2 ** attempt
RECURSIVE Pow2(_)
Pow2(n) == IF n = 0 THEN 1 ELSE 2 * Pow2(n - 1)

\* ------------------------------------------------------------------- state
VARIABLES
    config,        \* self.config: [num_processors, max_retries, timeout,
                   \* decision_maker_temperature (in tenths)]
    manager_config, \* self.config_manager.config, what get_config() returns
    request,       \* the caller's call: [entry, model, messages, response_format]
    stub,          \* per task: the script of a deterministic remote service, if any
    pc,            \* position of _parse_internal
    task,          \* per task: [st, attempt, value, error, last_error]
    delays,        \* per task: the asyncio.sleep arguments so far
    settled,       \* worker tasks in the order they finished, until gather returns
    out_of_order,  \* gather returned after a task finished before one created earlier
    successful_results, \* local of _process_parallel_requests
    failed_count,       \* local of _process_parallel_requests
    dm_calls,      \* number of _make_single_request invocations by _make_decision
    decision_messages, \* local of _make_decision
    remote_calls,  \* the distinct parameter sets submitted to the remote service
    lifecycle,     \* the lifecycle states the request has passed through
    outcome,       \* what _parse_internal returned or raised
    last_update,   \* the last call of ConfigurationManager.update_config
                   \* (parallel_llm/config.py): [called, kwargs, before, raised]
    dataclass_config, \* self.config of a ConfigurationManager of src/config.py
    handled        \* the last call of handle_openai_error: [error, result]

\* the state of the objects used outside execute
library_vars == <<last_update, dataclass_config, handled>>

vars == <<config, manager_config, request, stub, pc, task, delays, settled, out_of_order,
          successful_results, failed_count, dm_calls, decision_messages, remote_calls, lifecycle, outcome,
          last_update, dataclass_config, handled>>

IdleTask == [st |-> "idle", attempt |-> 0, value |-> NoValue,
             error |-> NoValue, last_error |-> NoValue]

\* decision_messages before _make_decision builds it
NoMessages ==
    [roles |-> << >>, system |-> NoValue, original_context |-> NoValue,
     all_responses |-> << >>]

\* no update_config call, no handle_openai_error call made yet
NoUpdate == [called |-> FALSE, kwargs |-> << >>, before |-> << >>, raised |-> FALSE]
NotHandled == [error |-> NoValue, result |-> NoValue]

NoOutcome == [kind |-> "none", value |-> NoValue, error |-> NoValue,
              failed_processors |-> -1]
Returned(v) == [kind |-> "value", value |-> v, error |-> NoValue,
                failed_processors |-> -1]
Raised(err, n) == [kind |-> "error", value |-> NoValue, error |-> err,
                   failed_processors |-> n]
\* asyncio.CancelledError, a BaseException, leaves _parse_internal uncaught
Cancelled == [kind |-> "cancelled", value |-> NoValue,
              error |-> "asyncio.CancelledError", failed_processors |-> -1]

\* ------------------------------------------------------ the remote service
\* The service behind openai_client.beta.chat.completions.parse. Unscripted,
\* every attempt may return any value or raise any error. A deterministic
\* stub answers each task by a fixed script: the first `fails` attempts
\* raise, the next one returns `value`.
Unscripted == [fails |-> -1, value |-> NoValue]
StubValues == Instances
Scripts(cfg) ==
    [fails : 0 .. cfg.max_retries, value : StubValues]
        \cup {[fails |-> cfg.max_retries + 1, value |-> NoValue]}
Stubs(cfg) ==
    {s \in [TaskIds -> Scripts(cfg) \cup {Unscripted}] :
        \A t \in TaskIds : s[t] = Unscripted <=> t \notin Workers(cfg) \cup {DM}}

\* may the awaited call of task t return v on attempt number a
stub_returns(s, t, a, v) ==
    s[t] = Unscripted \/ (a = s[t].fails /\ v = s[t].value)

\* may the awaited call of task t raise on attempt number a
stub_raises(s, t, a) ==
    s[t] = Unscripted \/ a < s[t].fails

Models          == {"", "gpt-4o-mini"}
MessageLists    == {"empty", "messages"}
\* None, the class dict, a JSON-schema mapping (not a class), a BaseModel subclass
ResponseFormats == {"None", "dict", "json_schema", "Schema"}

\* the two presentations: ParallelLLM.parse and
\* ParallelLLM.beta.chat.completions.parse
Entries == {"parse", "beta.chat.completions.parse"}

\* the keyword arguments FrameworkConfig(...) may be built from; timeout in
\* seconds, decision_maker_temperature in tenths (-0.1, 0.1, 2.1)
ConfigInputs ==
    {c \in [num_processors : 0 .. MaxProcessors, max_retries : -1 .. MaxRetries,
             timeout : {0, 30}, decision_maker_temperature : {-1, 1, 21}] :
        c.num_processors * (c.max_retries + 1) <= MaxWorkerAttempts}

\* the field validators of FrameworkConfig: TRUE when the value is accepted
validate_num_processors(v) == ~ (v < 1)
validate_timeout(v) == ~ (v <= 0)

\* variant: the max_retries validator is missing
validate_max_retries_missing(v) == TRUE

validate_max_retries(v) == ~ (v < 0)
validate_decision_maker_temperature(v) == ~ (v < 0 \/ v > 20)

\* FrameworkConfig(**kwargs) returns an instance (TRUE) or raises (FALSE)
FrameworkConfig(kwargs) ==
    /\ validate_num_processors(kwargs.num_processors)
    /\ validate_timeout(kwargs.timeout)
    /\ validate_max_retries(kwargs.max_retries)
    /\ validate_decision_maker_temperature(kwargs.decision_maker_temperature)

\* the configurations a ParallelLLM can hold
Configs == {c \in ConfigInputs : FrameworkConfig(c)}

\* the state after FrameworkConfig(...) and ParallelLLM(api_key, config):
\* either an instance waiting for a call of execute, or no instance at all
\* because the configuration was rejected
Init ==
    /\ config \in ConfigInputs
    /\ manager_config = config
    /\ request \in [entry : Entries, model : Models, messages : MessageLists,
                    response_format : ResponseFormats]
    /\ request.entry = "beta.chat.completions.parse" =>
           config.num_processors <= MaxEnvelopeProcessors
    /\ stub = [t \in TaskIds |-> Unscripted]
    /\ pc = IF FrameworkConfig(config) THEN "submitted" ELSE "config_rejected"
    /\ task = [t \in TaskIds |-> IdleTask]
    /\ delays = [t \in TaskIds |-> << >>]
    /\ settled = << >>
    /\ out_of_order = FALSE
    /\ successful_results = << >>
    /\ failed_count = 0
    /\ dm_calls = 0
    /\ decision_messages = NoMessages
    /\ remote_calls = {}
    /\ lifecycle = << "SUBMITTED" >>
    /\ outcome = NoOutcome
    /\ last_update = NoUpdate
    /\ dataclass_config = config
    /\ handled = NotHandled

\* ---------------------------------------------------- _make_single_request
\* the coroutine enters the loop and awaits its first remote call
FirstAttempt == [st |-> "calling", attempt |-> 0, value |-> NoValue,
                 error |-> NoValue, last_error |-> NoValue]

\* the awaited remote call returns completion.choices[0].message.parsed = v
attempt_returns(tk, v) ==
    [tk EXCEPT !.st = "ok", !.value = v]

\* variant: the last-attempt test is off by one (attempt == max_retries + 1)
attempt_raises_off_by_one(tk, e) ==
    IF tk.attempt = config.max_retries + 1
    THEN [tk EXCEPT !.st = "failed", !.error = terminal_error(e), !.last_error = e]
    ELSE [tk EXCEPT !.st = "sleeping", !.last_error = e]

\* variant: one retry budget shared by the tasks: no retry once a sibling
\* has failed terminally
attempt_raises_shared_budget(tk, e) ==
    IF tk.attempt = config.max_retries \/ \E u \in TaskIds : task[u].st = "failed"
    THEN [tk EXCEPT !.st = "failed", !.error = terminal_error(e), !.last_error = e]
    ELSE [tk EXCEPT !.st = "sleeping", !.last_error = e]

\* variant: a timed-out attempt is not retried
attempt_raises_timeout_fatal(tk, e) ==
    IF tk.attempt = config.max_retries \/ e = "asyncio.TimeoutError"
    THEN [tk EXCEPT !.st = "failed", !.error = terminal_error(e), !.last_error = e]
    ELSE [tk EXCEPT !.st = "sleeping", !.last_error = e]

\* the awaited remote call (or wait_for) raises e
attempt_raises(tk, e) ==
    IF tk.attempt = config.max_retries
    THEN [tk EXCEPT !.st = "failed", !.error = terminal_error(e), !.last_error = e]
    ELSE [tk EXCEPT !.st = "sleeping", !.last_error = e]

\* asyncio.sleep(2 ** attempt) ends: next iteration of the for loop
next_attempt(tk) ==
    [tk EXCEPT !.st = "calling", !.attempt = tk.attempt + 1, !.last_error = NoValue]

Settled(t) == task[t].st \in {"ok", "failed"}

\* asyncio.Task.done(): the coroutine returned, raised or was cancelled
task_done(tk) == tk.st \in {"ok", "failed", "cancelled"}

\* isinstance(result, Exception) on a task's entry in the list gather
\* returns: the framework error a failed task raised is an Exception; the
\* asyncio.CancelledError of a cancelled task is a BaseException and not an
\* Exception (Python >= 3.8)
isinstance_Exception(tk) == tk.st = "failed"

\* a task's entry in the list gather returns, when it is not an Exception
result_value(tk) ==
    IF tk.st = "cancelled" THEN "CancelledError" ELSE tk.value

\* -------------------------------------------------------- final validation
\* variant: Step 3 is skipped, the response is returned as it is
finalize_unchecked(v) == Returned(v)

\* variant: a response that is not an instance is rejected without the
\* model_validate pass
finalize_no_coercion(v) ==
    IF isinstance_response_format(v)
    THEN Returned(v)
    ELSE Raised("ValidationError", -1)

\* Step 3 of _parse_internal
finalize(v) ==
    IF isinstance_response_format(v)
    THEN Returned(v)
    ELSE LET x == IF hasattr_model_dump(v) THEN model_dump(v) ELSE v
         IN  IF model_validate(x) = "raise"
             THEN Raised("ValidationError", -1)
             ELSE Returned(model_validate(x))

\* ----------------------------------------------------------- _parse_internal
InputError ==
    \/ request.model = ""
    \/ request.messages = "empty"
    \/ request.response_format # "Schema"

\* the keyword arguments _parse_internal receives besides model, messages,
\* response_format and temperature (the caller passes no extra ones):
\* ParallelLLM.parse forwards the caller's, ParallelCompletionInterface.parse
\* adds pass_reasoning
parse_internal_kwargs(entry) ==
    IF entry = "beta.chat.completions.parse" THEN {"pass_reasoning"} ELSE {}

\* variant: the workers are sent to the configured decision maker model
worker_call_config_model ==
    [by |-> "worker", model |-> "config.decision_maker_model",
     messages |-> request.messages,
     response_format |-> request.response_format,
     temperature |-> "temperature",
     kwargs |-> parse_internal_kwargs(request.entry)]

\* the parameters of a worker's openai_client.beta.chat.completions.parse
\* call: the arguments of _parse_internal, handed down unchanged
\* ("temperature" stands for the caller's temperature)
worker_call ==
    [by |-> "worker", model |-> request.model,
     messages |-> request.messages,
     response_format |-> request.response_format,
     temperature |-> "temperature",
     kwargs |-> parse_internal_kwargs(request.entry)]

\* the parameters of the arbitration call of _make_decision
decision_call ==
    [by |-> "decision_maker", model |-> "config.decision_maker_model",
     messages |-> "decision_messages",
     response_format |-> request.response_format,
     temperature |-> "config.decision_maker_temperature",
     kwargs |-> {}]

\* the error the argument checks raise: ValidationError, or the TypeError of
\* issubclass(response_format, BaseModel) on a non-class, which the outer
\* `except Exception` turns into ProcessingError("Unexpected error: ...")
argument_error ==
    IF request.model = "" \/ request.messages = "empty"
       \/ request.response_format = "None"
    THEN "ValidationError"
    ELSE IF request.response_format = "json_schema"
    THEN "ProcessingError"
    ELSE "ValidationError"

\* where a request whose arguments are rejected ends
rejected_state ==
    IF argument_error = "ValidationError" THEN "VALIDATION_FAILED"
    ELSE "PROCESSING_FAILED"

\* where Step 3 of _parse_internal ends: `return final_response`, or
\* `raise ValidationError`
final_state(o) ==
    IF o.kind = "value" THEN "FINALIZED" ELSE "VALIDATION_FAILED"

\* Validate the arguments; on success create the N worker tasks and await gather
Submit ==
    /\ pc = "submitted"
    /\ IF InputError
       THEN /\ pc' = "done"
            /\ outcome' = Raised(argument_error, -1)
            /\ lifecycle' = Append(lifecycle, rejected_state)
            /\ UNCHANGED <<task, remote_calls>>
       ELSE /\ pc' = "fanned_out"
            /\ task' = [t \in TaskIds |->
                          IF t \in Workers(config) THEN FirstAttempt ELSE task[t]]
            /\ remote_calls' = remote_calls \cup {worker_call}
            /\ lifecycle' = Append(lifecycle, "FANNED_OUT")
            /\ UNCHANGED outcome
    /\ UNCHANGED <<config, manager_config, library_vars, request, stub, delays, settled, out_of_order, successful_results,
                   failed_count, dm_calls, decision_messages>>

\* a worker's remote call returns a parsed value
WorkerReturns(w, v) ==
    /\ w \in Workers(config)
    /\ task[w].st = "calling"
    /\ stub_returns(stub, w, task[w].attempt, v)
    /\ task' = [task EXCEPT ![w] = attempt_returns(task[w], v)]
    /\ settled' = Append(settled, w)
    /\ UNCHANGED <<config, manager_config, library_vars, request, stub, pc, delays, out_of_order, successful_results,
                   failed_count, dm_calls, decision_messages, remote_calls, lifecycle, outcome>>

\* a worker's remote call raises (or times out)
WorkerRaises(w, e) ==
    /\ w \in Workers(config)
    /\ task[w].st = "calling"
    /\ stub_raises(stub, w, task[w].attempt)
    /\ task' = [task EXCEPT ![w] = attempt_raises(task[w], e)]
    /\ IF task[w].attempt = config.max_retries
       THEN /\ settled' = Append(settled, w)
            /\ UNCHANGED delays
       ELSE /\ delays' = [delays EXCEPT ![w] = Append(@, Pow2(task[w].attempt))]
            /\ UNCHANGED settled
    /\ UNCHANGED <<config, manager_config, library_vars, request, stub, pc, out_of_order, successful_results,
                   failed_count, dm_calls, decision_messages, remote_calls, lifecycle, outcome>>

\* a worker's backoff sleep ends and it issues its next attempt
WorkerRetries(w) ==
    /\ w \in Workers(config)
    /\ task[w].st = "sleeping"
    /\ task' = [task EXCEPT ![w] = next_attempt(task[w])]
    /\ remote_calls' = remote_calls \cup {worker_call}
    /\ UNCHANGED <<config, manager_config, library_vars, request, stub, pc, delays, settled, out_of_order, successful_results,
                   failed_count, dm_calls, decision_messages, lifecycle, outcome>>

\* -------------------------------------------- _process_parallel_requests
\* asyncio.gather(*tasks, return_exceptions=True) resumes the awaiting
\* coroutine once every task has finished
\* variant: gather without return_exceptions, resumed by the first exception
gather_done_first_exception ==
    \/ \A w \in Workers(config) : task_done(task[w])
    \/ \E w \in Workers(config) : task[w].st = "failed"

\* variant: asyncio.wait that stops as soon as two tasks have a result
gather_done_two_successes ==
    \/ \A w \in Workers(config) : task_done(task[w])
    \/ Cardinality({w \in Workers(config) : task[w].st = "ok"}) >= 2

\* variant: the join resumes only when every task has a value
gather_done_all_succeeded == \A w \in Workers(config) : task[w].st = "ok"

gather_done == \A w \in Workers(config) : task_done(task[w])

\* variant: results collected as the tasks complete (asyncio.as_completed)
gather_results_completion_order ==
    [i \in 1 .. Len(settled) |-> task[settled[i]]]

\* the list gather returns: one entry per task, in the order of `tasks`
gather_results == [i \in 1 .. config.num_processors |-> task[i]]

\* variant: the loop keeps a result only when it is truthy (`if result:`)
RECURSIVE filter_successful_truthy(_)
filter_successful_truthy(results) ==
    IF results = << >> THEN << >>
    ELSE (IF Head(results).st = "ok" /\ Head(results).value # "NoneV"
          THEN << Head(results).value >> ELSE << >>)
         \o filter_successful_truthy(Tail(results))

\* the loop that filters out exceptions: the values, in list order
RECURSIVE filter_successful(_)
filter_successful(results) ==
    IF results = << >> THEN << >>
    ELSE (IF isinstance_Exception(Head(results))
          THEN << >> ELSE << result_value(Head(results)) >>)
         \o filter_successful(Tail(results))

\* variant: only ProcessingError results are counted as failures
RECURSIVE count_failed_processing_only(_)
count_failed_processing_only(results) ==
    IF results = << >> THEN 0
    ELSE (IF Head(results).st = "failed" /\ Head(results).error = "ProcessingError"
          THEN 1 ELSE 0)
         + count_failed_processing_only(Tail(results))

\* the same loop: failed_count
RECURSIVE count_failed(_)
count_failed(results) ==
    IF results = << >> THEN 0
    ELSE (IF isinstance_Exception(Head(results)) THEN 1 ELSE 0)
         + count_failed(Tail(results))

\* variant: the fail-fast test is missing
not_successful_results_never(results) == FALSE

\* `if not successful_results:` of _process_parallel_requests
not_successful_results(results) == results = << >>

\* ------------------------------------------------------------ _make_decision
\* response.model_dump_json(indent=2), or json.dumps(response, indent=2,
\* default=str) for an object without model_dump_json
response_json(v) ==
    CASE v = "A"      -> "json_A"
      [] v = "B"      -> "json_B"
      [] v = "OtherA" -> "json_A"
      [] v = "CancelledError" -> "json_str"
      [] OTHER        -> "null"

\* variant: the candidates are numbered from 0 (i instead of i + 1)
response_texts_zero_based(responses) ==
    [i \in 1 .. Len(responses) |->
        [number |-> i - 1, json |-> response_json(responses[i])]]

\* response_texts: "Response {i+1}:\n{response_json}" for each response
response_texts(responses) ==
    [i \in 1 .. Len(responses) |->
        [number |-> i, json |-> response_json(responses[i])]]

\* decision_messages: the system message with the configured prompt, then
\* one user message with the original context and all the response texts
build_decision_messages(responses, original_messages) ==
    [roles |-> << "system", "user" >>,
     system |-> "config.decision_maker_prompt",
     original_context |-> original_messages,
     all_responses |-> response_texts(responses)]

\* variant: no short-circuit, a single response is arbitrated too
single_response_never(responses) == FALSE

\* the short-circuit test of _make_decision: len(responses) == 1
single_response(responses) == Len(responses) = 1

\* variant: the first worker response is returned although arbitration succeeded
decision_return_first(decision_response, responses) == responses[1]

\* `return decision_response`: what _make_decision returns when the
\* arbitration call succeeded
decision_return(decision_response, responses) == decision_response

\* variant: the test of the except branch is inverted (`if not responses`)
decision_fallback_inverted(responses) ==
    IF Len(responses) = 0
    THEN finalize(responses[1])
    ELSE Raised("DecisionMakerError", -1)

\* variant: the fallback takes the last response (responses[-1])
decision_fallback_last(responses) ==
    IF Len(responses) > 0
    THEN finalize(responses[Len(responses)])
    ELSE Raised("DecisionMakerError", -1)

\* the except branch of _make_decision: responses[0] goes on to the final
\* validation, or DecisionMakerError is raised
decision_fallback(responses) ==
    IF Len(responses) > 0
    THEN finalize(responses[1])
    ELSE Raised("DecisionMakerError", -1)

\* the states passed when the arbitration call has failed: the fallback
\* and Step 3, or the DecisionMakerError of the except branch
fallback_path(o) ==
    IF o.error = "DecisionMakerError"
    THEN << "DECISION_FAILED" >>
    ELSE << "FALLBACK", final_state(o) >>

\* gather returns; the results are classified; then either the request
\* fails, or the single success is validated and returned, or
\* _make_decision issues the arbitration call
Join ==
    /\ pc = "fanned_out"
    /\ gather_done
    /\ successful_results' = filter_successful(gather_results)
    /\ failed_count' = count_failed(gather_results)
    /\ IF not_successful_results(successful_results')
       THEN /\ pc' = "done"
            /\ outcome' = Raised("ProcessingError", failed_count')
            /\ lifecycle' = Append(lifecycle, "ALL_FAILED")
            /\ UNCHANGED <<task, dm_calls, decision_messages, remote_calls>>
       ELSE IF single_response(successful_results')
       THEN /\ pc' = "done"
            /\ outcome' = finalize(successful_results'[1])
            /\ lifecycle' = lifecycle \o << "ARBITRATING", "ARBITRATED",
                                           final_state(outcome') >>
            /\ UNCHANGED <<task, dm_calls, decision_messages, remote_calls>>
       ELSE /\ pc' = "arbitrating"
            /\ task' = [task EXCEPT ![DM] = FirstAttempt]
            /\ dm_calls' = dm_calls + 1
            /\ decision_messages' =
                   build_decision_messages(successful_results', request.messages)
            /\ remote_calls' = remote_calls \cup {decision_call}
            /\ lifecycle' = Append(lifecycle, "ARBITRATING")
            /\ UNCHANGED outcome
    /\ settled' = << >>
    /\ out_of_order' = (\E i, j \in 1 .. Len(settled) : i < j /\ settled[i] > settled[j])
    /\ UNCHANGED <<config, manager_config, library_vars, request, stub, delays>>

\* the arbitration call returns decision_response = v; it is validated
DecisionReturns(v) ==
    /\ pc = "arbitrating"
    /\ task[DM].st = "calling"
    /\ stub_returns(stub, DM, task[DM].attempt, v)
    /\ task' = [task EXCEPT ![DM] = attempt_returns(task[DM], v)]
    /\ pc' = "done"
    /\ outcome' = finalize(decision_return(v, successful_results))
    /\ lifecycle' = lifecycle \o << "ARBITRATED", final_state(outcome') >>
    /\ UNCHANGED <<config, manager_config, library_vars, request, stub, delays, settled, out_of_order, successful_results,
                   failed_count, dm_calls, decision_messages, remote_calls>>

\* the arbitration call raises: a backoff sleep, or on the last attempt the
\* except branch of _make_decision
DecisionRaises(e) ==
    /\ pc = "arbitrating"
    /\ task[DM].st = "calling"
    /\ stub_raises(stub, DM, task[DM].attempt)
    /\ task' = [task EXCEPT ![DM] = attempt_raises(task[DM], e)]
    /\ IF task[DM].attempt = config.max_retries
       THEN /\ pc' = "done"
            /\ outcome' = decision_fallback(successful_results)
            /\ lifecycle' = lifecycle \o fallback_path(outcome')
            /\ UNCHANGED delays
       ELSE /\ delays' = [delays EXCEPT ![DM] = Append(@, Pow2(task[DM].attempt))]
            /\ UNCHANGED <<pc, outcome, lifecycle>>
    /\ UNCHANGED <<config, manager_config, library_vars, request, stub, settled, out_of_order, successful_results,
                   failed_count, dm_calls, decision_messages, remote_calls>>

\* the arbitration call's backoff sleep ends
DecisionRetries ==
    /\ pc = "arbitrating"
    /\ task[DM].st = "sleeping"
    /\ task' = [task EXCEPT ![DM] = next_attempt(task[DM])]
    /\ remote_calls' = remote_calls \cup {decision_call}
    /\ UNCHANGED <<config, manager_config, library_vars, request, stub, pc, delays, settled, out_of_order, successful_results,
                   failed_count, dm_calls, decision_messages, lifecycle, outcome>>

\* -------------------------------------------------------------- update_config
\* the keyword arguments of the update_config calls explored: one accepted
\* by the validators, one rejected
UpdateKwargs == {[num_processors |-> 1], [num_processors |-> 0]}

\* config_dict = self.config.model_dump(); config_dict.update(kwargs)
config_dict_update(cfg, kwargs) ==
    [f \in DOMAIN cfg |-> IF f \in DOMAIN kwargs THEN kwargs[f] ELSE cfg[f]]

\* variant: the values are assigned to the held configuration one by one
\* and validated afterwards
manager_update_config_in_place(cfg, kwargs) ==
    [config |-> config_dict_update(cfg, kwargs),
     raised |-> ~ FrameworkConfig(config_dict_update(cfg, kwargs))]

\* ConfigurationManager.update_config of parallel_llm/config.py: the
\* configuration the manager holds afterwards, and whether the call raised
\* ConfigurationError. self.config is assigned only when
\* FrameworkConfig(**config_dict) returned
manager_update_config(cfg, kwargs) ==
    IF FrameworkConfig(config_dict_update(cfg, kwargs))
    THEN [config |-> config_dict_update(cfg, kwargs), raised |-> FALSE]
    ELSE [config |-> cfg, raised |-> TRUE]

\* ParallelLLM.update_config between two calls of execute: the manager
\* builds and keeps a new FrameworkConfig, or raises ConfigurationError
\* and keeps the old one; self.config of the ParallelLLM is not assigned
UpdateConfig(kwargs) ==
    /\ pc = "submitted"
    /\ manager_config' = manager_update_config(manager_config, kwargs).config
    /\ UNCHANGED <<config, library_vars, request, stub, pc, task, delays, settled, out_of_order,
                   successful_results, failed_count, dm_calls, decision_messages, remote_calls,
                   lifecycle, outcome>>

\* the keyword arguments of the calls made on a ConfigurationManager alone:
\* one or two fields, valid values and invalid ones (temperature in tenths)
ManagerKwargs ==
    {[num_processors |-> 2], [max_retries |-> -1],
     [num_processors |-> 1, max_retries |-> -1],
     [num_processors |-> 2, max_retries |-> 0],
     [timeout |-> 0, max_retries |-> 1],
     [decision_maker_temperature |-> 21]}

\* a call of ConfigurationManager.update_config (parallel_llm/config.py) on
\* a manager used by itself
ManagerUpdateConfig(kwargs) ==
    /\ pc = "submitted"
    /\ manager_config' = manager_update_config(manager_config, kwargs).config
    /\ last_update' = [called |-> TRUE, kwargs |-> kwargs, before |-> manager_config,
                       raised |-> manager_update_config(manager_config, kwargs).raised]
    /\ UNCHANGED <<config, dataclass_config, handled, request, stub, pc, task, delays,
                   settled, out_of_order, successful_results, failed_count, dm_calls,
                   decision_messages, remote_calls, lifecycle, outcome>>

\* FrameworkConfig.__post_init__ of src/config.py on an instance: TRUE when
\* it returns, FALSE when it raises ConfigurationError
dataclass_post_init(cfg) ==
    /\ ~ (cfg.num_processors < 1)
    /\ ~ (cfg.timeout <= 0)
    /\ ~ (cfg.max_retries < 0)
    /\ ~ (cfg.decision_maker_temperature < 0 \/ cfg.decision_maker_temperature > 20)

\* hasattr(self.config, key) for an instance of the dataclass
dataclass_hasattr(cfg, key) == key \in DOMAIN cfg

\* the loop of update_config in src/config.py over kwargs.items(), in order:
\* setattr for a known key, raise at the first unknown key. The instance as
\* the loop leaves it, and whether the loop raised
RECURSIVE dataclass_setattrs(_, _)
dataclass_setattrs(cfg, items) ==
    IF items = << >> THEN [config |-> cfg, raised |-> FALSE]
    ELSE IF dataclass_hasattr(cfg, Head(items).key)
    THEN dataclass_setattrs([cfg EXCEPT ![Head(items).key] = Head(items).value],
                            Tail(items))
    ELSE [config |-> cfg, raised |-> TRUE]

\* ConfigurationManager.update_config of src/config.py: the instance is
\* mutated by the loop, then validated by __post_init__; any exception is
\* re-raised as ConfigurationError and the instance stays as mutated
dataclass_update_config(cfg, items) ==
    [config |-> dataclass_setattrs(cfg, items).config,
     raised |-> \/ dataclass_setattrs(cfg, items).raised
                \/ ~ dataclass_post_init(dataclass_setattrs(cfg, items).config)]

\* the keyword arguments of the calls made on the dataclass manager, in the
\* order of kwargs.items(): valid values, invalid ones and an unknown key
DataclassKwargs ==
    {<<[key |-> "num_processors", value |-> 1]>>,
     <<[key |-> "num_processors", value |-> 0]>>,
     <<[key |-> "max_retries", value |-> -1], [key |-> "bogus", value |-> 0]>>,
     <<[key |-> "bogus", value |-> 0], [key |-> "timeout", value |-> 0]>>}

\* a call of ConfigurationManager.update_config (src/config.py)
DataclassUpdateConfig(items) ==
    /\ pc = "submitted"
    /\ dataclass_config' = dataclass_update_config(dataclass_config, items).config
    /\ UNCHANGED <<config, manager_config, last_update, handled, request, stub, pc,
                   task, delays, settled, out_of_order, successful_results,
                   failed_count, dm_calls, decision_messages, remote_calls,
                   lifecycle, outcome>>

\* a call of errors.handle_openai_error(error)
HandleOpenAIError(e) ==
    /\ pc = "submitted"
    /\ handled' = [error |-> e, result |-> handle_openai_error(e)]
    /\ UNCHANGED <<config, manager_config, last_update, dataclass_config, request,
                   stub, pc, task, delays, settled, out_of_order, successful_results,
                   failed_count, dm_calls, decision_messages, remote_calls,
                   lifecycle, outcome>>

\* the operations of the library outside execute: the two configuration
\* managers and the error conversion
NextLibrary ==
    \/ \E kwargs \in ManagerKwargs : ManagerUpdateConfig(kwargs)
    \/ \E items \in DataclassKwargs : DataclassUpdateConfig(items)
    \/ \E e \in OpenAIErrors : HandleOpenAIError(e)

\* managers built from a valid configuration
InitLibrary ==
    /\ Init
    /\ FrameworkConfig(config)
    /\ request.entry = "parse"
    /\ ~ InputError

SpecLibrary == InitLibrary /\ [][NextLibrary]_vars

\* variant: the children are shielded from the parent's cancellation
cancel_task_shielded(tk) == tk

\* task.cancel(): CancelledError is thrown into the coroutine at its await
\* (the remote call under wait_for, or asyncio.sleep); no except clause of
\* _make_single_request catches it; a finished task is left as it is
cancel_task(tk) ==
    IF tk.st \in {"calling", "sleeping"} THEN [tk EXCEPT !.st = "cancelled"] ELSE tk

\* the caller cancels the task running execute while it awaits gather or
\* the arbitration call: gather cancels its unfinished children and never
\* returns its list, the directly awaited arbitration coroutine is
\* cancelled in place
Cancel ==
    /\ pc \in {"fanned_out", "arbitrating"}
    /\ pc' = "cancelled"
    /\ task' = [t \in TaskIds |-> cancel_task(task[t])]
    /\ outcome' = Cancelled
    /\ settled' = << >>
    /\ UNCHANGED <<config, manager_config, library_vars, request, stub, delays, out_of_order, successful_results,
                   failed_count, dm_calls, decision_messages, remote_calls, lifecycle>>

\* something outside the framework cancels one worker task (the tasks are
\* visible through asyncio.all_tasks() as "processor_i") while execute
\* awaits gather: the task ends cancelled, gather goes on waiting for the
\* others
CancelWorker(w) ==
    /\ pc = "fanned_out"
    /\ w \in Workers(config)
    /\ task[w].st \in {"calling", "sleeping"}
    /\ task' = [task EXCEPT ![w] = cancel_task(task[w])]
    /\ settled' = Append(settled, w)
    /\ UNCHANGED <<config, manager_config, library_vars, request, stub, pc, delays, out_of_order,
                   successful_results, failed_count, dm_calls, decision_messages,
                   remote_calls, lifecycle, outcome>>

Next ==
    \/ Submit
    \/ \E w \in 1 .. MaxProcessors, v \in Values : WorkerReturns(w, v)
    \/ \E w \in 1 .. MaxProcessors, e \in AttemptErrors : WorkerRaises(w, e)
    \/ \E w \in 1 .. MaxProcessors : WorkerRetries(w)
    \/ Join
    \/ \E v \in Values : DecisionReturns(v)
    \/ \E e \in AttemptErrors : DecisionRaises(e)
    \/ DecisionRetries
    \/ Cancel

Spec == Init /\ [][Next]_vars

\* a direct call of execute on an instance with a valid configuration
InitLive ==
    /\ Init
    /\ FrameworkConfig(config)
    /\ config.num_processors <= MaxLiveProcessors
    /\ request.entry = "parse"

\* every awaited remote call eventually returns, raises or times out
AttemptSettles(t) ==
    IF t = DM
    THEN (\E v \in Values : DecisionReturns(v))
             \/ (\E e \in AttemptErrors : DecisionRaises(e))
    ELSE (\E v \in Values : WorkerReturns(t, v))
             \/ (\E e \in AttemptErrors : WorkerRaises(t, e))

\* every backoff sleep eventually ends
SleepEnds(t) == IF t = DM THEN DecisionRetries ELSE WorkerRetries(t)

\* the event loop runs every coroutine that is ready: the one of execute
\* (Submit, Join) and those of the tasks
Fairness ==
    /\ WF_vars(Submit)
    /\ WF_vars(Join)
    /\ \A t \in TaskIds : WF_vars(AttemptSettles(t)) /\ WF_vars(SleepEnds(t))

SpecLive == InitLive /\ [][Next]_vars /\ Fairness

\* the life of an instance whose configuration is updated before execute
NextConfig ==
    \/ Next
    \/ \E kwargs \in UpdateKwargs : UpdateConfig(kwargs)

\* a direct call on an instance with a valid configuration
InitConfig ==
    /\ Init
    /\ FrameworkConfig(config)
    /\ request.entry = "parse"

SpecConfig == InitConfig /\ [][NextConfig]_vars

\* execute in an environment that may also cancel single worker tasks
NextChildCancel ==
    \/ Next
    \/ \E w \in 1 .. MaxProcessors : CancelWorker(w)

\* a well-formed direct call on an instance with a valid configuration
InitChildCancel ==
    /\ Init
    /\ FrameworkConfig(config)
    /\ ~ InputError
    /\ request.entry = "parse"

SpecChildCancel == InitChildCancel /\ [][NextChildCancel]_vars

\* a call of execute on an instance whose remote service is a
\* deterministic stub
InitStub ==
    /\ config \in Configs
    /\ manager_config = config
    /\ request \in [entry : {"parse"}, model : Models, messages : MessageLists,
                    response_format : ResponseFormats]
    /\ stub \in Stubs(config)
    /\ pc = "submitted"
    /\ task = [t \in TaskIds |-> IdleTask]
    /\ delays = [t \in TaskIds |-> << >>]
    /\ settled = << >>
    /\ out_of_order = FALSE
    /\ successful_results = << >>
    /\ failed_count = 0
    /\ dm_calls = 0
    /\ decision_messages = NoMessages
    /\ remote_calls = {}
    /\ lifecycle = << "SUBMITTED" >>
    /\ outcome = NoOutcome
    /\ last_update = NoUpdate
    /\ dataclass_config = config
    /\ handled = NotHandled

SpecStub == InitStub /\ [][Next]_vars

TypeOK ==
    /\ pc # "config_rejected" => config \in Configs
    /\ pc \in {"config_rejected", "submitted", "fanned_out", "arbitrating", "done",
               "cancelled"}
    /\ \A t \in TaskIds :
         /\ task[t].st \in {"idle", "calling", "sleeping", "ok", "failed", "cancelled"}
         /\ task[t].attempt \in 0 .. MaxRetries
    /\ outcome.kind \in {"none", "value", "error", "cancelled"}
    /\ pc # "config_rejected" => manager_config \in Configs
    /\ stub \in [TaskIds -> [fails : -1 .. MaxRetries + 1,
                              value : Values \cup {NoValue}]]

\* ================================================================ properties
N == config.num_processors
R == config.max_retries

\* remote attempts task t has issued so far
Attempts(t) == IF task[t].st = "idle" THEN 0 ELSE task[t].attempt + 1

OkWorkers == {w \in Workers(config) : task[w].st = "ok"}
FailedWorkers == {w \in Workers(config) : task[w].st = "failed"}

\* gather has returned and the report has been assembled
Joined == pc \in {"arbitrating", "done"} /\ task[1].st # "idle"

FirstOkWorker == CHOOSE w \in OkWorkers : \A u \in OkWorkers : w <= u

\* the result of the final validation as section 4.4 of the specification
\* words it: the value itself when it conforms, a re-validated instance when
\* its serialized form validates, a Validation error otherwise
Validated(v) ==
    CASE v \in {"A", "B"} -> Returned(v)
      [] v = "OtherA"     -> Returned("A")
      [] OTHER            -> Raised("ValidationError", -1)

\* C1: if all N workers terminally fail, execute raises a Processing error
\* whose failed_processors equals N, and no arbitration call is ever issued.
C1_AllFailedRaisesProcessing ==
    (FailedWorkers = Workers(config)) =>
        /\ dm_calls = 0
        /\ Attempts(DM) = 0
        /\ pc = "done" => outcome = Raised("ProcessingError", N)

\* three workers, max_retries = 1, every attempt rate-limited: each worker
\* attempted exactly twice and execute raised Processing(failed_processors=3)
C1_Witness ==
    /\ pc = "done" /\ N = 3 /\ R = 1
    /\ \A w \in Workers(config) :
         /\ task[w].st = "failed"
         /\ task[w].last_error = "openai.RateLimitError"
         /\ Attempts(w) = 2
    /\ outcome.error = "ProcessingError" /\ outcome.failed_processors = 3

\* C2 as stated: if exactly one worker succeeds, execute returns exactly
\* that worker's value and issues no arbitration call.
C2_Original ==
    (pc = "done" /\ Cardinality(OkWorkers) = 1) =>
        /\ outcome = Returned(task[FirstOkWorker].value)
        /\ dm_calls = 0

\* C2 amended: if exactly one worker succeeds, no arbitration call is issued
\* and the result of execute is that worker's value after the final
\* validation: the value itself when it is an instance of the response
\* format, otherwise a re-validated instance or a Validation error.
C2_SingleSuccessShortCircuit ==
    (Joined /\ Cardinality(OkWorkers) = 1) =>
        /\ dm_calls = 0
        /\ Attempts(DM) = 0
        /\ pc = "done"
        /\ outcome = Validated(task[FirstOkWorker].value)
        /\ isinstance_response_format(task[FirstOkWorker].value)
             => outcome = Returned(task[FirstOkWorker].value)

\* two workers, the second succeeds with "B", the first fails on an
\* authentication error: execute returned "B" without arbitration
C2_Witness ==
    /\ pc = "done" /\ N = 2
    /\ task[1].st = "failed" /\ task[1].last_error = "openai.AuthenticationError"
    /\ task[2].st = "ok" /\ task[2].value = "B"
    /\ outcome = Returned("B")
    /\ dm_calls = 0

\* C3 as stated: if K >= 2 workers succeed and the arbitration call
\* succeeds, execute returns the arbitration call's result.
C3_Original ==
    (pc = "done" /\ Cardinality(OkWorkers) >= 2 /\ task[DM].st = "ok") =>
        outcome = Returned(task[DM].value)

\* C3 amended: if K >= 2 workers succeed and the arbitration call succeeds,
\* the result of execute is the arbitration call's result after the final
\* validation (itself when it is an instance of the response format,
\* otherwise a re-validated instance or a Validation error), never a raw
\* worker result.
C3_ArbitratedResultReturned ==
    (pc = "done" /\ Cardinality(OkWorkers) >= 2 /\ task[DM].st = "ok") =>
        /\ outcome = Validated(task[DM].value)
        /\ isinstance_response_format(task[DM].value)
             => outcome = Returned(task[DM].value)

\* all three workers returned "A", the arbitration call returned "B":
\* execute returned "B"
C3_Witness ==
    /\ pc = "done" /\ N = 3
    /\ \A w \in Workers(config) : task[w].st = "ok" /\ task[w].value = "A"
    /\ task[DM].st = "ok" /\ task[DM].value = "B"
    /\ outcome = Returned("B")

\* C4 as stated: if K >= 2 workers succeed and the arbitration call fails
\* after its retries, execute returns the first successful worker's result
\* and raises no error.
C4_Original ==
    (pc = "done" /\ Cardinality(OkWorkers) >= 2 /\ task[DM].st = "failed") =>
        outcome = Returned(task[FirstOkWorker].value)

\* C4 amended: if K >= 2 workers succeed and the arbitration call fails
\* after its retries, the arbitration failure is not raised; the result of
\* execute is the first successful worker's value (in issue order) after the
\* final validation: that value when it is an instance of the response
\* format, otherwise a re-validated instance or a Validation error.
C4_FallbackToFirstSuccess ==
    (pc = "done" /\ Cardinality(OkWorkers) >= 2 /\ task[DM].st = "failed") =>
        /\ outcome = Validated(task[FirstOkWorker].value)
        /\ isinstance_response_format(task[FirstOkWorker].value)
             => outcome = Returned(task[FirstOkWorker].value)
        /\ outcome.error \notin {"DecisionMakerError", task[DM].error}

\* worker 1 failed, workers 2 and 3 returned "B" and "A", the arbitration
\* call failed on each of its two attempts: execute returned "B"
C4_Witness ==
    /\ pc = "done" /\ N = 3 /\ R = 1
    /\ task[1].st = "failed"
    /\ task[2].st = "ok" /\ task[2].value = "B"
    /\ task[3].st = "ok" /\ task[3].value = "A"
    /\ task[DM].st = "failed" /\ Attempts(DM) = 2
    /\ outcome = Returned("B")

\* C5: once the fan-out has joined, every one of the N workers is a success
\* or a failure and len(successes) + failure count = N.
C5_ReportCountsAddUp ==
    Joined =>
        /\ Len(successful_results) + failed_count = N
        /\ \A w \in Workers(config) : task[w].st \in {"ok", "failed"}
        /\ Len(successful_results) = Cardinality(OkWorkers)
        /\ failed_count = Cardinality(FailedWorkers)

\* a joined fan-out of three workers with both successes and a failure
C5_Witness ==
    /\ Joined /\ N = 3
    /\ Len(successful_results) = 2
    /\ failed_count = 1
    /\ \E w \in OkWorkers : task[w].value = "NoneV"

\* C6: a task running _make_single_request with max_retries = R makes at
\* most R + 1 remote attempts, fails terminally only on attempt R + 1, and
\* makes no further attempt after its first successful one.
C6_RetryBound ==
    [][\A t \in TaskIds :
         /\ Attempts(t)' <= R + 1
         /\ task'[t].st = "failed" => Attempts(t)' = R + 1
         /\ task[t].st = "ok" => task'[t] = task[t]]_vars

\* one worker failed after R + 1 = 3 attempts, the other succeeded on its
\* second attempt and stayed there
C6_Witness ==
    /\ pc = "done" /\ N = 2 /\ R = 2
    /\ task[1].st = "failed" /\ Attempts(1) = 3
    /\ task[2].st = "ok" /\ Attempts(2) = 2

\* the attempt errors whose framework error is_retryable_error rejects
NonRetryable ==
    {e \in AttemptErrors : ~ is_retryable_error(handle_openai_error(e))}

\* C7: a non-retryable failure (authentication, validation, configuration)
\* on a task's attempt terminates the task at once, with exactly 1 attempt,
\* regardless of max_retries.
C7_NonRetryableFailsAtOnce ==
    \A t \in TaskIds :
        task[t].last_error \in NonRetryable =>
            task[t].st = "failed" /\ Attempts(t) = 1

\* C8: the report is assembled only after every worker has settled by
\* itself: each worker either returned a value or exhausted its own R + 1
\* attempts; none was cut short by a sibling's failure or success.
C8_AllWorkersAwaited ==
    Joined =>
        \A w \in Workers(config) :
            \/ task[w].st = "ok" /\ task[w].value \in Values
            \/ /\ task[w].st = "failed"
               /\ Attempts(w) = R + 1
               /\ task[w].last_error \in AttemptErrors

\* worker 2 failed terminally first; worker 1 went on, retried and
\* succeeded afterwards, and only then the report was assembled
C8_Witness ==
    /\ Joined /\ N = 2 /\ R = 1
    /\ out_of_order
    /\ task[2].st = "failed"
    /\ task[1].st = "ok" /\ Attempts(1) = 2

\* C9: an arbitration attempt exists only after all N workers have settled,
\* never while a worker attempt or backoff is pending, and at most one
\* arbitration task exists per request.
C9_ArbitrationAfterFanOut ==
    /\ dm_calls <= 1
    /\ (dm_calls = 0) = (task[DM].st = "idle")
    /\ task[DM].st # "idle" =>
         /\ \A w \in Workers(config) : Settled(w)
         /\ Cardinality(OkWorkers) >= 2

\* the arbitration call is in its backoff while all three workers are settled
C9_Witness ==
    /\ pc = "arbitrating" /\ N = 3
    /\ task[DM].st = "sleeping"
    /\ dm_calls = 1
    /\ \A w \in Workers(config) : Settled(w)

\* position of successful worker w among the successful workers, by index
IssueRank(w) == Cardinality({u \in OkWorkers : u <= w})

\* C10: the successes handed to the arbitrator are ordered by worker issue
\* index, not by completion order, so the fallback candidate is the
\* lowest-index successful worker.
C10_SuccessesInIssueOrder ==
    Joined =>
        /\ Len(successful_results) = Cardinality(OkWorkers)
        /\ \A w \in OkWorkers : successful_results[IssueRank(w)] = task[w].value
        /\ OkWorkers # {} => successful_results[1] = task[FirstOkWorker].value

\* worker 2 finished before worker 1, yet worker 1's value comes first
C10_Witness ==
    /\ Joined /\ N = 2
    /\ out_of_order
    /\ task[1].st = "ok" /\ task[1].value = "A"
    /\ task[2].st = "ok" /\ task[2].value = "B"
    /\ successful_results = << "A", "B" >>

\* the framework error that keeps the kind of a classified attempt failure
SameKind(e) ==
    CASE e = "asyncio.TimeoutError"       -> "TimeoutError"
      [] e = "openai.APITimeoutError"     -> "TimeoutError"
      [] e = "openai.RateLimitError"      -> "RateLimitError"
      [] e = "openai.AuthenticationError" -> "AuthenticationError"
      [] e = "openai.APIError"            -> "APIError"
      [] OTHER                            -> "ProcessingError"

\* C11: when a task exhausts its max_retries + 1 attempts, its terminal
\* failure is the last attempt's classified failure with its kind preserved:
\* a timeout stays a Timeout, a rate limit stays RateLimited, a transport
\* error stays a remote-service error.
C11_TerminalFailureKeepsKind ==
    \A t \in TaskIds :
        task[t].st = "failed" => task[t].error = SameKind(task[t].last_error)

\* the error kinds execute may raise to its caller
CallerErrors == {"ValidationError", "ConfigurationError", "ProcessingError",
                 "DecisionMakerError"}

\* C12: every completed execute yields exactly one outcome: a value that
\* conforms to the schema, or one typed error of the kinds Validation,
\* Configuration, Processing, DecisionMakerFailure; no raw attempt or worker
\* failure and no untyped exception reaches the caller.
C12_OneTypedOutcome ==
    /\ pc = "done" =>
         \/ /\ outcome.kind = "value"
            /\ isinstance_response_format(outcome.value)
            /\ outcome.error = NoValue
         \/ /\ outcome.kind = "error"
            /\ outcome.error \in CallerErrors
            /\ outcome.value = NoValue
    /\ pc \in {"submitted", "fanned_out", "arbitrating"} => outcome = NoOutcome

\* two workers ended with raw AuthenticationError and RateLimitError
\* failures; the caller got one ProcessingError carrying the count
C12_Witness ==
    /\ pc = "done" /\ N = 2
    /\ task[1].error = "AuthenticationError"
    /\ task[2].error = "RateLimitError"
    /\ outcome = Raised("ProcessingError", 2)

\* the parameters ParallelLLM.parse submits for this request's workers
direct_worker_call ==
    [by |-> "worker", model |-> request.model,
     messages |-> request.messages,
     response_format |-> request.response_format,
     temperature |-> "temperature", kwargs |-> {}]

\* C13: the envelope presentation (beta.chat.completions.parse) and the
\* direct presentation (parse) carry identical semantics; in particular
\* both submit the same request parameters to the remote service: whatever
\* the entry point, a worker's call carries what the direct call carries.
C13_SameRemoteParameters ==
    \A c \in remote_calls : c.by = "worker" => c = direct_worker_call

\* C15: when the caller cancels an execute in progress, the cancellation
\* reaches every in-flight task (awaiting the remote call or sleeping in
\* backoff, worker or arbitration call), and after it no task of the
\* request makes a further remote attempt.
C15_CancellationReachesAllTasks ==
    [][/\ pc' = "cancelled" =>
            \A t \in TaskIds : task'[t].st \notin {"calling", "sleeping"}
       /\ pc = "cancelled" =>
            /\ \A t \in TaskIds : Attempts(t)' = Attempts(t)
            /\ remote_calls' = remote_calls
            /\ dm_calls' = dm_calls]_vars

\* execute was cancelled while worker 1 awaited its remote call and worker 2
\* slept in its backoff; worker 3 had already returned
C15_Witness ==
    /\ pc = "cancelled" /\ N = 3
    /\ task[1].st = "cancelled" /\ task[1].last_error = NoValue
    /\ task[2].st = "cancelled" /\ task[2].last_error # NoValue
    /\ task[3].st = "ok"
    /\ outcome = Cancelled

\* the transitions the claim lists
ClaimedEdges ==
    { << "SUBMITTED", "FANNED_OUT" >>,
      << "FANNED_OUT", "ALL_FAILED" >>, << "FANNED_OUT", "ARBITRATING" >>,
      << "ARBITRATING", "ARBITRATED" >>, << "ARBITRATING", "FALLBACK" >>,
      << "ARBITRATED", "FINALIZED" >>, << "ARBITRATED", "VALIDATION_FAILED" >>,
      << "FALLBACK", "FINALIZED" >>, << "FALLBACK", "VALIDATION_FAILED" >> }

\* the transitions of a request whose arguments are rejected
RejectionEdges ==
    { << "SUBMITTED", "VALIDATION_FAILED" >>, << "SUBMITTED", "PROCESSING_FAILED" >> }

FollowsOnly(edges) ==
    /\ lifecycle[1] = "SUBMITTED"
    /\ \A i \in 1 .. Len(lifecycle) - 1 : << lifecycle[i], lifecycle[i + 1] >> \in edges

LastState == lifecycle[Len(lifecycle)]

\* C16 as stated: the lifecycle only follows SUBMITTED -> FANNED_OUT ->
\* {ALL_FAILED | ARBITRATING -> {ARBITRATED | FALLBACK}} -> {FINALIZED |
\* VALIDATION_FAILED}.
C16_Original == FollowsOnly(ClaimedEdges)

\* C16 amended: a request whose arguments pass the checks of execute only
\* follows the claimed transitions; a request whose arguments are rejected
\* goes from SUBMITTED straight to a terminal failure (VALIDATION_FAILED, or a
\* Processing error when response_format is not a class).  ALL_FAILED,
\* FINALIZED and VALIDATION_FAILED are terminal, the final validation runs on
\* both the arbitrated and the fallback value, and a single success passes
\* ARBITRATING -> ARBITRATED without an arbitration call.
C16_Lifecycle ==
    /\ FollowsOnly(ClaimedEdges \cup RejectionEdges)
    /\ ~ InputError => FollowsOnly(ClaimedEdges)
    /\ InputError => lifecycle \in { << "SUBMITTED" >>,
                                     << "SUBMITTED", rejected_state >> }
    /\ (pc = "done") = (LastState \in {"ALL_FAILED", "FINALIZED", "VALIDATION_FAILED",
                                       "PROCESSING_FAILED"})
    /\ LastState = "FINALIZED" => outcome.kind = "value"
    /\ LastState = "VALIDATION_FAILED" => outcome.error = "ValidationError"
    /\ LastState = "ALL_FAILED" => outcome.error = "ProcessingError"
    /\ (\E i \in 1 .. Len(lifecycle) : lifecycle[i] = "FALLBACK") = (task[DM].st = "failed")
    /\ pc = "arbitrating" => LastState = "ARBITRATING"
    /\ pc = "fanned_out" => LastState = "FANNED_OUT"

\* the arbitration call failed and the fallback value did not validate
C16_Witness ==
    /\ lifecycle = << "SUBMITTED", "FANNED_OUT", "ARBITRATING", "FALLBACK",
                      "VALIDATION_FAILED" >>
    /\ pc = "done"
    /\ task[DM].st = "failed"

\* C17: invalid configuration values (worker count < 1, timeout <= 0, max
\* retries < 0, arbitration temperature outside [0, 2]) are rejected before
\* any orchestration begins: whenever an orchestrator exists, and so in
\* every state in which a worker is spawned, its configuration satisfies the
\* four bounds; a rejected configuration never spawns a worker.
C17_OnlyValidConfigOrchestrates ==
    /\ pc # "config_rejected" =>
         /\ config.num_processors >= 1
         /\ config.timeout > 0
         /\ config.max_retries >= 0
         /\ config.decision_maker_temperature >= 0
         /\ config.decision_maker_temperature <= 20
    /\ pc = "config_rejected" =>
         /\ \/ config.num_processors < 1
            \/ config.timeout <= 0
            \/ config.max_retries < 0
            \/ config.decision_maker_temperature < 0
            \/ config.decision_maker_temperature > 20
         /\ \A t \in TaskIds : task[t].st = "idle"
         /\ remote_calls = {}

\* a configuration with max_retries = -1 and otherwise valid values was
\* rejected; no worker exists
C17_Witness ==
    /\ pc = "config_rejected"
    /\ config.max_retries = -1
    /\ config.num_processors = 2 /\ config.timeout = 30
    /\ config.decision_maker_temperature = 1
    /\ \A t \in TaskIds : task[t].st = "idle"

\* the delay before the k-th retry: 1, 2, 4, ... units
RECURSIVE Doubling(_)
Doubling(k) == IF k <= 1 THEN 1 ELSE Doubling(k - 1) + Doubling(k - 1)

\* the number of backoff sleeps task t has started
SleepsStarted(t) ==
    IF task[t].st = "idle" THEN 0
    ELSE IF task[t].st = "sleeping" THEN task[t].attempt + 1
    ELSE IF task[t].st = "cancelled" /\ task[t].last_error # NoValue
    THEN task[t].attempt + 1
    ELSE task[t].attempt

\* C18: backoff is exponential: the delay before the k-th retry is 2^(k-1)
\* units (1, 2, 4, ...), so delays never decrease; one delay precedes each
\* retry and none follows the final failed attempt.
C18_ExponentialBackoff ==
    \A t \in TaskIds :
        /\ Len(delays[t]) = SleepsStarted(t)
        /\ \A k \in 1 .. Len(delays[t]) : delays[t][k] = Doubling(k)
        /\ \A k \in 1 .. Len(delays[t]) - 1 : delays[t][k] <= delays[t][k + 1]
        /\ task[t].st = "failed" => Len(delays[t]) = R

\* a worker failed on all three attempts: it slept 1 and 2 units and not
\* after the last failure
C18_Witness ==
    /\ R = 2
    /\ task[1].st = "failed" /\ Attempts(1) = 3
    /\ delays[1] = << 1, 2 >>

\* what execute hands its caller after a successful arbitration call or after
\* the single-success short-circuit: a plain value, or the ValidationError
\* of the final validation
UnmarkedOutcomes ==
    {Returned(v) : v \in Values} \cup {Raised("ValidationError", -1)}

\* C19: when the arbitration call fails and the first successful candidate
\* is returned instead, the result is marked "fallback used", so that the
\* caller can tell it from an arbitrated result and from a single-success
\* short-circuit.
C19_FallbackMarked ==
    (pc = "done" /\ task[DM].st = "failed") => outcome \notin UnmarkedOutcomes

\* the value _make_decision hands to Step 3: the arbitration result, else
\* the first success
FinalResponse ==
    IF task[DM].st = "ok" THEN task[DM].value ELSE task[FirstOkWorker].value

\* C20: the finalizer returns a value that already satisfies the schema
\* unchanged; otherwise it makes one coercion pass, and if that fails
\* execute raises a Validation error: never a value that does not conform,
\* never another error kind.
C20_FinalizerValidatesOrRaises ==
    (pc = "done" /\ OkWorkers # {}) =>
        /\ FinalResponse \in {"A", "B"} => outcome = Returned(FinalResponse)
        /\ FinalResponse = "OtherA" => outcome = Returned("A")
        /\ FinalResponse = "NoneV" => outcome = Raised("ValidationError", -1)
        /\ outcome.kind = "value" => outcome.value \in {"A", "B"}
        /\ outcome.kind = "error" => outcome.error = "ValidationError"

\* the arbitration call answered with an object of another class; its
\* dumped fields validated and execute returned the new instance
C20_Witness ==
    /\ pc = "done"
    /\ task[DM].st = "ok" /\ task[DM].value = "OtherA"
    /\ outcome = Returned("A")

\* what task t ends with against the stub: the scripted value when the
\* script fails no more than max_retries times, a failure otherwise
scripted_result(t) ==
    IF stub[t].fails <= config.max_retries
    THEN [st |-> "ok", value |-> stub[t].value]
    ELSE [st |-> "failed", value |-> NoValue]

\* the outcome of execute when the tasks run one after the other, in the
\* order they are created: a function of the inputs and the stub alone
SequentialOutcome ==
    IF InputError THEN Raised(argument_error, -1)
    ELSE LET responses ==
                 filter_successful([i \in 1 .. N |-> scripted_result(i)])
         IN  IF responses = << >> THEN Raised("ProcessingError", N)
             ELSE IF Len(responses) = 1 THEN finalize(responses[1])
             ELSE IF scripted_result(DM).st = "ok"
                  THEN finalize(scripted_result(DM).value)
                  ELSE finalize(responses[1])

\* C14: against a deterministic remote service stub, every run of execute
\* with the same inputs that completes ends with the same final value or
\* the same error, whatever the interleaving and completion order of the
\* concurrent workers.
C14_OutcomeIndependentOfInterleaving ==
    pc = "done" => outcome = SequentialOutcome

\* worker 1 retried once and so finished after worker 2; both succeeded
\* with different values; arbitration failed and the first created
\* worker's value was returned
C14_Witness ==
    /\ pc = "done" /\ out_of_order
    /\ stub[1] = [fails |-> 1, value |-> "A"]
    /\ stub[2] = [fails |-> 0, value |-> "B"]
    /\ task[DM].st = "failed"
    /\ outcome = Returned("A")

\* C21: the configuration the orchestration reads (worker count, timeout,
\* max retries, arbitration settings) is the one get_config() returns, so
\* an update_config made before execute takes effect on that execute.
C21_UpdateTakesEffect ==
    pc \in {"fanned_out", "arbitrating", "done"} => config = manager_config

\* _make_decision has been entered: it issued the arbitration call, or
\* short-circuited on a single response
DecisionEntered ==
    \/ pc = "arbitrating"
    \/ task[DM].st # "idle"
    \/ pc = "done" /\ outcome.error # "ProcessingError" /\ ~ InputError

\* C22: within execute the arbitrator is never invoked with an empty set of
\* successes (an empty set fails fast in the fan-out), and execute never
\* raises a DecisionMakerError.
C22_ArbitratorNeverSeesEmptySet ==
    /\ DecisionEntered => successful_results # << >>
    /\ Joined /\ OkWorkers = {} =>
           /\ task[DM].st = "idle" /\ dm_calls = 0
           /\ pc = "done" /\ outcome.error = "ProcessingError"
    /\ outcome.error # "DecisionMakerError"

\* two workers without retries both failed: the request failed fast and the
\* arbitrator was never entered
C22_Witness ==
    /\ N = 2 /\ R = 0
    /\ FailedWorkers = Workers(config)
    /\ pc = "done" /\ successful_results = << >>
    /\ task[DM].st = "idle"
    /\ outcome.error = "ProcessingError"

\* the failures the specification calls transient remote failures
TransientErrors == {"openai.RateLimitError", "openai.APIError", "Exception"}

\* where task t stands after its attempt number task[t].attempt failed, if
\* the failure is retried: out of budget after attempt R, else in (or
\* cancelled out of) the backoff sleep of that attempt index
RetriedFailure(t) ==
    IF task[t].attempt = R
    THEN /\ task[t].st = "failed"
         /\ Attempts(t) = R + 1
         /\ Len(delays[t]) = R
    ELSE /\ task[t].st \in {"sleeping", "cancelled"}
         /\ Len(delays[t]) = task[t].attempt + 1
         /\ delays[t][Len(delays[t])] = Doubling(task[t].attempt + 1)

\* C23: a timed-out attempt is handled like a transient remote failure for
\* retry purposes: it consumes one attempt of the same R + 1 budget and is
\* followed by the same backoff delay as a rate-limit or generic remote
\* error at the same attempt index.
C23_TimeoutRetriedLikeTransient ==
    \A t \in TaskIds :
        /\ task[t].last_error = "asyncio.TimeoutError" => RetriedFailure(t)
        /\ task[t].last_error \in TransientErrors => RetriedFailure(t)

\* worker 1's second attempt timed out, worker 2's second attempt was
\* rate-limited: both are in their second backoff sleep, of 2 units
C23_Witness ==
    /\ R = 2 /\ N = 2
    /\ task[1].st = "sleeping" /\ task[1].attempt = 1
    /\ task[1].last_error = "asyncio.TimeoutError"
    /\ task[2].st = "sleeping" /\ task[2].attempt = 1
    /\ task[2].last_error = "openai.RateLimitError"
    /\ delays[1] = << 1, 2 >> /\ delays[2] = delays[1]

\* task t's attempt counter or backoff state changes in this step
RetryStateChanged(t) ==
    \/ task'[t].st # task[t].st
    \/ task'[t].attempt # task[t].attempt
    \/ delays'[t] # delays[t]

\* a change of task t's retry state that its own state and the outcome of
\* its own attempt account for
OwnStep(t) ==
    \/ /\ task[t].st = "idle" /\ task'[t].st = "calling"
       /\ task'[t].attempt = 0 /\ delays'[t] = delays[t]
    \/ /\ task[t].st = "calling" /\ task'[t].st = "ok"
       /\ task'[t].attempt = task[t].attempt /\ delays'[t] = delays[t]
    \/ /\ task[t].st = "calling" /\ task'[t].st = "sleeping"
       /\ task[t].attempt < R
       /\ task'[t].attempt = task[t].attempt
       /\ delays'[t] = Append(delays[t], Doubling(task[t].attempt + 1))
    \/ /\ task[t].st = "calling" /\ task'[t].st = "failed"
       /\ task[t].attempt = R
       /\ task'[t].attempt = task[t].attempt /\ delays'[t] = delays[t]
    \/ /\ task[t].st = "sleeping" /\ task'[t].st = "calling"
       /\ task'[t].attempt = task[t].attempt + 1 /\ delays'[t] = delays[t]
    \/ /\ task[t].st \in {"calling", "sleeping"} /\ task'[t].st = "cancelled"
       /\ task'[t].attempt = task[t].attempt /\ delays'[t] = delays[t]

\* C24: retries are worker-local: each task has its own attempt counter and
\* backoff state; while the workers run, a step changes the retry state of
\* one task only, and the change depends on that task's own state and its
\* own attempt's outcome, never on a sibling's failures or successes.
C24_RetriesWorkerLocal ==
    [][/\ \A t \in TaskIds : RetryStateChanged(t) => OwnStep(t)
       /\ pc = "fanned_out" /\ pc' = "fanned_out" =>
              Cardinality({t \in TaskIds : RetryStateChanged(t)}) <= 1]_vars

\* worker 1 has used up its two attempts and failed, worker 2 is still
\* awaiting its first attempt, worker 3 sleeps after its first failure
C24_Witness ==
    /\ pc = "fanned_out" /\ N = 3 /\ R = 1
    /\ task[1].st = "failed" /\ Attempts(1) = 2 /\ delays[1] = << 1 >>
    /\ task[2].st = "calling" /\ Attempts(2) = 1 /\ delays[2] = << >>
    /\ task[3].st = "sleeping" /\ Attempts(3) = 1 /\ delays[3] = << 1 >>

\* the arguments execute (_parse_internal) was called with
ExecuteArguments ==
    [model |-> request.model, messages |-> request.messages,
     response_format |-> request.response_format,
     temperature |-> "temperature",
     kwargs |-> parse_internal_kwargs(request.entry)]

\* the parameters of a remote call, without the issuing role
Parameters(c) ==
    [model |-> c.model, messages |-> c.messages,
     response_format |-> c.response_format, temperature |-> c.temperature,
     kwargs |-> c.kwargs]

WorkerCalls == {c \in remote_calls : c.by = "worker"}

\* C25: every attempt of every one of the N workers submits the identical
\* request: the model, messages, schema, temperature and extra parameters
\* execute was called with; and the orchestration leaves the request's
\* messages and parameters unchanged.
C25_WorkersSubmitTheRequest ==
    [][/\ request' = request
       /\ \A c \in WorkerCalls' : Parameters(c) = ExecuteArguments'
       /\ (\E w \in Workers(config) : Attempts(w)' > 0) => WorkerCalls' # {}]_vars

\* three workers have issued five attempts between them, all with the one
\* parameter set
C25_Witness ==
    /\ N = 3 /\ R = 1
    /\ Attempts(1) = 2 /\ Attempts(2) = 2 /\ Attempts(3) = 1
    /\ task[3].st = "ok"
    /\ Cardinality(WorkerCalls) = 1

DecisionCalls == {c \in remote_calls : c.by = "decision_maker"}

\* C26: for K >= 2 successes the arbitration call is issued against the
\* configured arbitration model and temperature (not the caller's) with the
\* caller's schema; its messages are the arbitration instruction followed
\* by one message holding the original context and a listing of every
\* candidate exactly once, numbered 1..K in the preserved order.
C26_ArbitrationCallContents ==
    /\ Joined /\ Cardinality(OkWorkers) >= 2 => task[DM].st # "idle"
    /\ task[DM].st # "idle" =>
        /\ DecisionCalls # {}
        /\ \A c \in DecisionCalls :
             /\ c.model = "config.decision_maker_model"
             /\ c.temperature = "config.decision_maker_temperature"
             /\ c.response_format = request.response_format
             /\ c.messages = "decision_messages"
        /\ decision_messages.roles = << "system", "user" >>
        /\ decision_messages.system = "config.decision_maker_prompt"
        /\ decision_messages.original_context = request.messages
        /\ Len(decision_messages.all_responses) = Cardinality(OkWorkers)
        /\ \A w \in OkWorkers :
             decision_messages.all_responses[IssueRank(w)] =
                 [number |-> IssueRank(w), json |-> response_json(task[w].value)]

\* workers 1 and 3 succeeded with different values, worker 2 failed: the
\* arbitration call lists worker 1's value as candidate 1 and worker 3's as
\* candidate 2
C26_Witness ==
    /\ N = 3 /\ pc = "arbitrating" /\ task[DM].st = "calling"
    /\ task[1].value = "B" /\ task[2].st = "failed" /\ task[3].value = "A"
    /\ decision_messages.all_responses =
           << [number |-> 1, json |-> "json_B"], [number |-> 2, json |-> "json_A"] >>

\* the remote attempts issued so far by the tasks 1 .. n
RECURSIVE WorkerAttempts(_)
WorkerAttempts(n) == IF n = 0 THEN 0 ELSE Attempts(n) + WorkerAttempts(n - 1)

\* C27: the arbitration call is governed by the same retry bound as a
\* worker (at most R + 1 attempts, with the same backoff), so one execute
\* issues at most N * (R + 1) worker attempts plus at most R + 1
\* arbitration attempts: never more than (N + 1) * (R + 1) remote calls.
C27_RemoteCallBudget ==
    pc # "config_rejected" =>
        /\ Attempts(DM) <= R + 1
        /\ task[DM].st = "failed" => Attempts(DM) = R + 1
        /\ \A k \in 1 .. Len(delays[DM]) : delays[DM][k] = Doubling(k)
        /\ Len(delays[DM]) <= R
        /\ WorkerAttempts(N) <= N * (R + 1)
        /\ WorkerAttempts(N) + Attempts(DM) <= (N + 1) * (R + 1)

\* both workers succeeded on their last attempt and the arbitration call
\* failed on all of its own: the budget of (2 + 1) * (1 + 1) = 6 remote
\* calls is used up
C27_Witness ==
    /\ pc = "done" /\ N = 2 /\ R = 1
    /\ WorkerAttempts(N) = 4
    /\ task[DM].st = "failed" /\ Attempts(DM) = 2 /\ delays[DM] = << 1 >>

\* C29: if execute is called with a missing or empty model, empty messages,
\* or a missing or non-schema response format, it raises a Validation
\* error before any worker is spawned: zero remote calls are made.
C29_InvalidArgumentsRaiseValidation ==
    (InputError /\ pc = "done") =>
        /\ outcome = Raised("ValidationError", -1)
        /\ remote_calls = {}
        /\ \A t \in TaskIds : task[t].st = "idle"

\* C30: every element counted as a success by the fan-out is a value
\* returned by a successful remote attempt of the corresponding worker; no
\* failure object, the outcome of a cancelled worker task included, is
\* classified as a success and passed to the arbitrator or returned as the
\* fallback.
C30_SuccessesAreReturnedValues ==
    /\ \A i \in 1 .. Len(successful_results) :
         /\ successful_results[i] \in Values
         /\ \E w \in OkWorkers : successful_results[i] = task[w].value
    /\ Joined => failed_count = N - Cardinality(OkWorkers)
    /\ \A i \in 1 .. Len(decision_messages.all_responses) :
         \E w \in OkWorkers :
            decision_messages.all_responses[i].json = response_json(task[w].value)

\* C28: provided every remote attempt eventually returns, fails or hits its
\* timeout and every backoff sleep eventually ends, every call of execute
\* eventually terminates with a value or an error (or is cancelled by its
\* caller): no task retries forever and the join never waits on a task that
\* cannot settle.
C28_ExecuteTerminates ==
    <>(\/ pc = "done" /\ outcome.kind \in {"value", "error"}
       \/ pc = "cancelled" /\ outcome = Cancelled)

\* the longest run: both workers needed all three attempts, the
\* arbitration call failed on all three of its own, and execute returned
C28_Witness ==
    /\ pc = "done" /\ N = 2 /\ R = 2
    /\ \A w \in Workers(config) : task[w].st = "ok" /\ Attempts(w) = 3
    /\ task[DM].st = "failed" /\ Attempts(DM) = 3
    /\ outcome.kind \in {"value", "error"}

\* the values a call supplies that the validators of FrameworkConfig reject
InvalidSupplied(kwargs) ==
    {f \in DOMAIN kwargs :
        \/ f = "num_processors" /\ kwargs[f] < 1
        \/ f = "timeout" /\ kwargs[f] <= 0
        \/ f = "max_retries" /\ kwargs[f] < 0
        \/ f = "decision_maker_temperature" /\ (kwargs[f] < 0 \/ kwargs[f] > 20)}

\* C31: ConfigurationManager.update_config of parallel_llm/config.py is
\* all-or-nothing: if any supplied value is invalid it raises
\* ConfigurationError and the manager's configuration is exactly what it was
\* before the call; if all are valid every supplied field is replaced and
\* every other field is unchanged.
C31_UpdateAllOrNothing ==
    last_update.called =>
        /\ last_update.raised = (InvalidSupplied(last_update.kwargs) # {})
        /\ last_update.raised => manager_config = last_update.before
        /\ ~ last_update.raised =>
             \A f \in DOMAIN manager_config :
                manager_config[f] = IF f \in DOMAIN last_update.kwargs
                                    THEN last_update.kwargs[f]
                                    ELSE last_update.before[f]

\* update_config(num_processors=1, max_retries=-1) on a manager holding
\* num_processors = 2 raised, and num_processors is still 2
C31_Witness ==
    /\ last_update.called /\ last_update.raised
    /\ last_update.kwargs = [num_processors |-> 1, max_retries |-> -1]
    /\ last_update.before.num_processors = 2
    /\ manager_config.num_processors = 2

\* C32: for the dataclass-based ConfigurationManager of src/config.py, after
\* any sequence of update_config calls, raising ones included, the
\* configuration held by the manager satisfies num_processors >= 1,
\* timeout > 0, max_retries >= 0 and 0 <= decision_maker_temperature <= 2.
C32_DataclassConfigStaysValid ==
    /\ dataclass_config.num_processors >= 1
    /\ dataclass_config.timeout > 0
    /\ dataclass_config.max_retries >= 0
    /\ dataclass_config.decision_maker_temperature >= 0
    /\ dataclass_config.decision_maker_temperature <= 20

\* C33: handle_openai_error maps a remote error to the framework error of
\* the matching kind: authentication -> AuthenticationError, rate limit ->
\* RateLimitError, remote timeout -> TimeoutError, any other remote API error
\* -> APIError, anything else -> ProcessingError; the specific kinds are
\* never shadowed by the generic API-error case.
C33_ErrorKindsMatch ==
    handled.error # NoValue =>
        /\ handled.error = "openai.AuthenticationError"
               => handled.result = "AuthenticationError"
        /\ handled.error = "openai.RateLimitError"
               => handled.result = "RateLimitError"
        /\ handled.error = "openai.APITimeoutError"
               => handled.result = "TimeoutError"
        /\ handled.error \in {"openai.APIError", "openai.APIConnectionError",
                              "openai.BadRequestError"}
               => handled.result = "APIError"
        /\ handled.error \in {"openai.OpenAIError", "asyncio.TimeoutError", "Exception"}
               => handled.result = "ProcessingError"

\* an openai.APITimeoutError, itself an openai.APIError, became a TimeoutError
C33_Witness ==
    /\ handled.error = "openai.APITimeoutError"
    /\ isinstance(handled.error, "openai.APIError")
    /\ handled.result = "TimeoutError"

====
